---- MODULE Spec2Model ----
(***************************************************************************)
(* QuickSell admin backend: the Express router (src/unnamed/part_000) and  *)
(* the admin controller (src/backend/src/controllers/adminController.ts)   *)
(* over a shared PostgreSQL pool.  The store tables are the state; every   *)
(* `await pool.query(...)` of a handler is one atomic step that either     *)
(* is answered by the store or rejects, and steps of different requests    *)
(* interleave freely.  A request's arrival is one step with its first      *)
(* admin check, and a sent response is taken off its slot before any other *)
(* step: both steps touch only the request itself.  Time is the order of    *)
(* the statements that store NOW().                                        *)
(*                                                                         *)
(* Spec runs all handlers on a small store.  UsersSpec runs getUsers with  *)
(* its page, limit, search and tier parameters on users tables of up to    *)
(* four users, MetricsSpec runs getDashboardMetrics on users and listings  *)
(* tables of up to sixteen users, DeleteSpec runs DELETE /users/:id and    *)
(* keeps the responses sent.                                               *)
(***************************************************************************)
EXTENDS Integers, Sequences, FiniteSets, TLC

(* ---- bounds ---------------------------------------------------------- *)
\* number of requests received in one behaviour
MaxRequests == 2

(* ---- value domains --------------------------------------------------- *)
\* ids that occur as caller identity or as user :id route parameter; 3 has
\* no user row
Ids == {1, 2, 3}
\* ids that occur as listing :id route parameter; 4 has no listing row
ListingIds == {1, 2, 3, 4}
\* requests in flight at the same time
Slots == {1, 2}

\* SQL NULL in a nullable column; a non-null column value v is <<v>>
Null == <<>>
\* deleted_at IS NULL
NoTime == 0

\* the JSON bodies sent to PUT /users/:id: a body is a function from the
\* keys it contains to their values; a text (username, email, search) is the
\* sequence of its characters
Bodies ==
  { [points |-> 7],
    [subscription_tier |-> "premium_plus", is_admin |-> FALSE],
    [username |-> <<"n", "e", "o">>, email |-> <<"n", "e", "o", "@", "q", "s", ".", "i", "o">>,
     subscription_tier |-> "premium", points |-> 7, is_admin |-> TRUE] }
NoBody == <<>>

\* res.json payload of an error or message-only envelope
NoData == <<>>

VARIABLES
  users,                \* table users: id -> row
  listings,             \* table listings: id -> row
  marketplace_accounts, \* table marketplace_accounts: id -> row
  ebay_listings,        \* table ebay_listings: set of row ids
  admin_activity_log,   \* table admin_activity_log: sequence of rows
  now,                  \* the store's clock, NOW()
  req,                  \* slot -> the request handled in it
  issued,               \* number of requests received so far
  delivered             \* the responses sent so far, where they are kept

vars == <<users, listings, marketplace_accounts, ebay_listings, admin_activity_log, now, req, issued, delivered>>
store == <<users, listings, marketplace_accounts, ebay_listings, admin_activity_log>>

(* ---- requests -------------------------------------------------------- *)
RouterHandlers ==
  {"dashboard", "getAllUsers", "getUser", "putUser", "deleteUser",
   "getListings", "deleteListing", "system", "analytics"}
ControllerHandlers ==
  {"getDashboardMetrics", "getUsers", "getSystemStats", "getAdminActivity"}

\* the seven reads of the Promise.all of getDashboardMetrics
ParallelReads ==
  {"usersResult", "listingsResult", "marketplaceAccountsResult", "ebayListingsResult",
   "subscriptionTiersResult", "recentUsersResult", "activeUsersResult"}

NoRes == <<>>

\* req.query without any parameter
NoQuery == <<>>

\* the query strings sent to getUsers next to the other requests: each of
\* search and tier is left out or given
Queries ==
  { NoQuery,
    [search |-> <<"a", "n">>],
    [tier |-> "premium"],
    [search |-> <<"O">>, tier |-> "free"] }

IdleReq ==
  [handler |-> "none", pc |-> "idle", userId |-> 0, id |-> 0, body |-> NoBody,
   query |-> NoQuery, sql |-> NoRes,
   gate |-> "none", status |-> 0, data |-> NoData, threw |-> FALSE,
   queries |-> 0, writes |-> 0, pending |-> {}, res |-> NoRes, before |-> NoRes,
   sent |-> 0]

\* no response is waiting to be taken off its slot
Quiet == \A s \in Slots : req[s].pc # "done"

\* a new request takes the lowest slot that holds no request
Free(s) == req[s].pc = "idle"
Accepts(s) == Quiet /\ Free(s) /\ \A t \in Slots : t < s => ~Free(t)

\* the request in slot s is in handler h, about to get the answer to the
\* query at one of the positions P
RunningIn(s, h, P) == Quiet /\ req[s].handler = h /\ req[s].pc \in P
Running(s, h, p) == RunningIn(s, h, {p})

NewReq(h, caller) == [IdleReq EXCEPT !.handler = h, !.userId = caller]

\* res.status(code).json(...) sends a response and ends the request
Respond(r, code, data) ==
  [r EXCEPT !.pc = "done", !.status = code, !.data = data, !.pending = {}, !.res = NoRes,
            !.sent = @ + 1]

\* a pool.query of the request rejected
Rejected(r) == [r EXCEPT !.threw = TRUE]

\* a handler without try/catch: the rejection leaves the handler and no
\* response is sent
Catch_uncaught(r) == [Rejected(r) EXCEPT !.pc = "uncaught", !.pending = {}, !.res = NoRes]

\* the catch block of every handler: res.status(500).json({success: false, ...})
Catch(r) == Respond(Rejected(r), 500, NoData)

\* one more pool.query issued by the request
Issued(r) == [r EXCEPT !.queries = @ + 1]
Wrote(r) == [r EXCEPT !.queries = @ + 1, !.writes = @ + 1]

(* ---- SQL helpers ----------------------------------------------------- *)
\* an admin check that only looks for the caller's row
IsAdminRow_rowExists(us, uid) == uid \in DOMAIN us

\* SELECT is_admin FROM users WHERE id = $1, then !rows[0]?.is_admin
IsAdminRow(us, uid) == uid \in DOMAIN us /\ us[uid].is_admin = <<TRUE>>

\* listings WHERE deleted_at IS NULL
Undeleted(ls) == {l \in DOMAIN ls : ls[l].deleted_at = NoTime}

(* ---- initial state --------------------------------------------------- *)
InitUsers ==
  (1 :> [username |-> <<<<"a", "n", "n">>>>,
         email |-> <<<<"A", "n", "n", "@", "q", "s", ".", "i", "o">>>>,
         subscription_tier |-> <<"premium">>,
         points |-> <<3>>, is_admin |-> <<TRUE>>, created_at |-> -40, updated_at |-> -40])
  @@
  (2 :> [username |-> <<<<"b", "o", "b">>>>,
         email |-> <<<<"b", "o", "b", "@", "q", "s", ".", "i", "o">>>>,
         subscription_tier |-> <<"free">>,
         points |-> <<0>>, is_admin |-> <<FALSE>>, created_at |-> -3, updated_at |-> -3])

InitListings ==
  (1 :> [user_id |-> 1, status |-> "active", created_at |-> -35, deleted_at |-> NoTime])
  @@
  (2 :> [user_id |-> 2, status |-> "draft", created_at |-> -10, deleted_at |-> NoTime])
  @@
  (3 :> [user_id |-> 2, status |-> "sold", created_at |-> -2, deleted_at |-> NoTime])

InitAccounts ==
  (1 :> [user_id |-> 1, is_active |-> TRUE])
  @@
  (2 :> [user_id |-> 2, is_active |-> FALSE])

Init ==
  /\ users = InitUsers
  /\ listings = InitListings
  /\ marketplace_accounts = InitAccounts
  /\ ebay_listings = {1}
  /\ admin_activity_log = <<>>
  /\ now = 1
  /\ req = [s \in Slots |-> IdleReq]
  /\ issued = 0
  /\ delivered = <<>>

\* NOW() is the time at which its statement runs: a statement that stores
\* NOW() runs later than every statement answered before it
Later(t) == t + 1

(* ---- SQL helpers, continued ------------------------------------------ *)
\* SELECT SUM(points) FROM users, then parseInt(total) || 0
RECURSIVE SumPoints(_, _)
SumPoints(us, S) ==
  IF S = {} THEN 0
  ELSE LET u == CHOOSE x \in S : TRUE
           p == IF us[u].points = Null THEN 0 ELSE us[u].points[1]
       IN p + SumPoints(us, S \ {u})

\* SELECT status, COUNT(*) FROM listings WHERE deleted_at IS NULL GROUP BY
\* status, then the forEach that picks the row of one status (0 without row)
StatusCount(ls, st) == Cardinality({l \in Undeleted(ls) : ls[l].status = st})

\* ORDER BY created_at DESC over the rows S of table t, as a sequence of ids
RECURSIVE OrderByCreatedDesc(_, _)
OrderByCreatedDesc(t, S) ==
  IF S = {} THEN <<>>
  ELSE LET x == CHOOSE y \in S : \A z \in S :
                  \/ t[y].created_at > t[z].created_at
                  \/ (t[y].created_at = t[z].created_at /\ y <= z)
       IN <<x>> \o OrderByCreatedDesc(t, S \ {x})

\* SELECT DATE(created_at), COUNT(*) ... GROUP BY DATE(created_at) over rows S
GrowthRows(t, S) ==
  {<<d, Cardinality({x \in S : t[x].created_at = d})>> : d \in {t[x].created_at : x \in S}}

(* ---- router: src/unnamed/part_000 -------------------------------------- *)
\* the external gate `authenticate, isAdmin` in front of every router
\* handler: it lets a request through only for a caller with the admin flag
GateAdmits(us, caller) == caller \in DOMAIN us /\ us[caller].is_admin = <<TRUE>>

\* a request for a router handler arrives and passes through the gate
isAdmin(s, h, caller) ==
  /\ Accepts(s)
  /\ issued < MaxRequests
  /\ issued' = issued + 1
  /\ LET r == NewReq(h, caller) IN
       req' = [req EXCEPT ![s] =
                 IF GateAdmits(users, caller)
                 THEN [r EXCEPT !.gate = "passed", !.pc = "q1"]
                 ELSE Respond([r EXCEPT !.gate = "denied"], 403, NoData)]
  /\ UNCHANGED <<store, now, delivered>>

\* GET /dashboard: four reads one after the other
dashboard(s, ok) ==
  /\ RunningIn(s, "dashboard", {"q1", "q2", "q3", "q4"})
  /\ LET r == Issued(req[s]) IN
       req' = [req EXCEPT ![s] =
         IF ~ok THEN Catch(r)
         ELSE CASE r.pc = "q1" ->
                     [r EXCEPT !.pc = "q2",
                               !.res = [totalUsers |-> Cardinality(DOMAIN users)]]
                [] r.pc = "q2" ->
                     [r EXCEPT !.pc = "q3",
                               !.res = [totalUsers |-> r.res.totalUsers,
                                        totalListings |-> Cardinality(Undeleted(listings))]]
                [] r.pc = "q3" ->
                     [r EXCEPT !.pc = "q4",
                               !.res = [totalUsers |-> r.res.totalUsers,
                                        totalListings |-> r.res.totalListings,
                                        activeListings |-> StatusCount(listings, "active"),
                                        draftListings |-> StatusCount(listings, "draft"),
                                        publishedListings |-> StatusCount(listings, "published")]]
                [] r.pc = "q4" ->
                     Respond(r, 200,
                       [totalUsers |-> r.res.totalUsers,
                        totalListings |-> r.res.totalListings,
                        activeListings |-> r.res.activeListings,
                        draftListings |-> r.res.draftListings,
                        publishedListings |-> r.res.publishedListings,
                        totalPoints |-> SumPoints(users, DOMAIN users),
                        avgListingsPerUser |->
                          IF r.res.totalUsers > 0
                          THEN <<r.res.totalListings, r.res.totalUsers>>
                          ELSE <<0, 1>>])]
  /\ UNCHANGED <<store, now, issued, delivered>>

\* a read that also stamps every row it returns
getAllUsers_touching(s, ok) ==
  /\ Running(s, "getAllUsers", "q1")
  /\ LET r == Issued(req[s])
         rows == OrderByCreatedDesc(users, DOMAIN users)
     IN req' = [req EXCEPT ![s] =
                  IF ~ok THEN Catch(r)
                  ELSE Respond(r, 200, [users |-> rows, total |-> Len(rows)])]
  /\ users' = IF ok THEN [u \in DOMAIN users |-> [users[u] EXCEPT !.updated_at = now]]
               ELSE users
  /\ UNCHANGED <<listings, marketplace_accounts, ebay_listings, admin_activity_log,
                 now, issued, delivered>>

\* GET /users
getAllUsers(s, ok) ==
  /\ Running(s, "getAllUsers", "q1")
  /\ LET r == Issued(req[s])
         rows == OrderByCreatedDesc(users, DOMAIN users)
     IN req' = [req EXCEPT ![s] =
                  IF ~ok THEN Catch(r)
                  ELSE Respond(r, 200, [users |-> rows, total |-> Len(rows)])]
  /\ UNCHANGED <<store, now, issued, delivered>>

\* a handler whose 404 branch lacks the return: it goes on to res.json
getUser_fallsThrough(s, id, ok) ==
  /\ Running(s, "getUser", "q1")
  /\ LET r == Issued([req[s] EXCEPT !.id = id]) IN
       req' = [req EXCEPT ![s] =
                 IF ~ok THEN Catch(r)
                 ELSE IF id \notin DOMAIN users
                 THEN Respond(Respond(r, 404, NoData), 200, NoData)
                 ELSE Respond(r, 200, users[id])]
  /\ UNCHANGED <<store, now, issued, delivered>>

\* GET /users/:id
getUser(s, id, ok) ==
  /\ Running(s, "getUser", "q1")
  /\ LET r == Issued([req[s] EXCEPT !.id = id]) IN
       req' = [req EXCEPT ![s] =
                 IF ~ok THEN Catch(r)
                 ELSE IF id \notin DOMAIN users THEN Respond(r, 404, NoData)
                 ELSE Respond(r, 200, users[id])]
  /\ UNCHANGED <<store, now, issued, delivered>>

\* const { username, ... } = req.body gives undefined for a key the body
\* lacks, and pool.query binds an undefined parameter as NULL
Param(body, f) == IF f \in DOMAIN body THEN <<body[f]>> ELSE Null

\* an update that inserts the row when the id matches none
UpdateUser_upsert(us, id, body, t) ==
  [u \in DOMAIN us \cup {id} |->
     [username |-> Param(body, "username"), email |-> Param(body, "email"),
      subscription_tier |-> Param(body, "subscription_tier"),
      points |-> Param(body, "points"), is_admin |-> Param(body, "is_admin"),
      created_at |-> IF u \in DOMAIN us THEN us[u].created_at ELSE t,
      updated_at |-> t]]

\* UPDATE users SET username = $1, email = $2, subscription_tier = $3,
\*   points = $4, is_admin = $5, updated_at = NOW() WHERE id = $6
UpdateUser(us, id, body, t) ==
  IF id \in DOMAIN us
  THEN [us EXCEPT ![id] =
         [@ EXCEPT !.username = Param(body, "username"),
                   !.email = Param(body, "email"),
                   !.subscription_tier = Param(body, "subscription_tier"),
                   !.points = Param(body, "points"),
                   !.is_admin = Param(body, "is_admin"),
                   !.updated_at = t]]
  ELSE us

\* RETURNING id, username, email, subscription_tier, points, is_admin
Returning(us, id) ==
  [id |-> id, username |-> us[id].username, email |-> us[id].email,
   subscription_tier |-> us[id].subscription_tier, points |-> us[id].points,
   is_admin |-> us[id].is_admin]

\* PUT /users/:id
putUser(s, id, body, ok) ==
  /\ Running(s, "putUser", "q1")
  /\ LET r == Wrote([req[s] EXCEPT !.id = id, !.body = body]) IN
       IF ~ok
       THEN /\ req' = [req EXCEPT ![s] = Catch(r)]
            /\ UNCHANGED <<users, now>>
       ELSE /\ users' = UpdateUser(users, id, body, now)
            /\ now' = Later(now)
            /\ req' = [req EXCEPT ![s] =
                         IF id \notin DOMAIN users
                         THEN Respond(r, 404, NoData)
                         ELSE Respond(r, 200, Returning(users', id))]
  /\ UNCHANGED <<listings, marketplace_accounts, ebay_listings, admin_activity_log, issued, delivered>>

\* a soft delete that matches the listing id instead of the owner
SoftDeleteListingsOf_byListingId(ls, id, t) ==
  [l \in DOMAIN ls |-> IF l = id THEN [ls[l] EXCEPT !.deleted_at = t] ELSE ls[l]]

\* UPDATE listings SET deleted_at = NOW() WHERE user_id = $1
SoftDeleteListingsOf(ls, id, t) ==
  [l \in DOMAIN ls |-> IF ls[l].user_id = id THEN [ls[l] EXCEPT !.deleted_at = t] ELSE ls[l]]

\* a delete that leaves the row in the table
DeleteUserRow_kept(us, id) == us

\* DELETE FROM users WHERE id = $1
DeleteUserRow(us, id) == [u \in DOMAIN us \ {id} |-> us[u]]

\* DELETE /users/:id, first query: soft-delete the user's listings
\* (before: the users and listings the handler found, kept for the proofs)
deleteUserListings(s, id, ok) ==
  /\ Running(s, "deleteUser", "q1")
  /\ LET r == Wrote([req[s] EXCEPT !.id = id,
                                   !.before = [users |-> DOMAIN users, listings |-> listings]]) IN
       IF ~ok
       THEN /\ req' = [req EXCEPT ![s] = Catch(r)]
            /\ UNCHANGED <<listings, now>>
       ELSE /\ listings' = SoftDeleteListingsOf(listings, id, now)
            /\ now' = Later(now)
            /\ req' = [req EXCEPT ![s] = [r EXCEPT !.pc = "q2"]]
  /\ UNCHANGED <<users, marketplace_accounts, ebay_listings, admin_activity_log, issued, delivered>>

\* a second query that is issued again when it rejects
deleteUserRow_retried(s, ok) ==
  /\ Running(s, "deleteUser", "q2")
  /\ LET r == Wrote(req[s]) IN
       IF ~ok
       THEN /\ req' = [req EXCEPT ![s] = r]
            /\ UNCHANGED users
       ELSE /\ users' = DeleteUserRow(users, r.id)
            /\ req' = [req EXCEPT ![s] =
                         IF r.id \notin DOMAIN users
                         THEN Respond(r, 404, NoData)
                         ELSE Respond(r, 200, NoData)]
  /\ UNCHANGED <<listings, marketplace_accounts, ebay_listings, admin_activity_log, now, issued, delivered>>

\* DELETE /users/:id, second query: delete the user row
deleteUserRow(s, ok) ==
  /\ Running(s, "deleteUser", "q2")
  /\ LET r == Wrote(req[s]) IN
       IF ~ok
       THEN /\ req' = [req EXCEPT ![s] = Catch(r)]
            /\ UNCHANGED users
       ELSE /\ users' = DeleteUserRow(users, r.id)
            /\ req' = [req EXCEPT ![s] =
                         IF r.id \notin DOMAIN users
                         THEN Respond(r, 404, NoData)
                         ELSE Respond(r, 200, NoData)]
  /\ UNCHANGED <<listings, marketplace_accounts, ebay_listings, admin_activity_log, now, issued, delivered>>

\* GET /listings: SELECT ... FROM listings WHERE deleted_at IS NULL
getListings(s, ok) ==
  /\ Running(s, "getListings", "q1")
  /\ LET r == Issued(req[s])
         rows == OrderByCreatedDesc(listings, Undeleted(listings))
     IN req' = [req EXCEPT ![s] =
                  IF ~ok THEN Catch(r)
                  ELSE Respond(r, 200, [listings |-> rows, total |-> Len(rows)])]
  /\ UNCHANGED <<store, now, issued, delivered>>

\* a delete that removes the listing row
SoftDeleteListing_hard(ls, id, t) == [l \in DOMAIN ls \ {id} |-> ls[l]]

\* UPDATE listings SET deleted_at = NOW() WHERE id = $1
SoftDeleteListing(ls, id, t) ==
  IF id \in DOMAIN ls THEN [ls EXCEPT ![id].deleted_at = t] ELSE ls

\* DELETE /listings/:id
deleteListing(s, id, ok) ==
  /\ Running(s, "deleteListing", "q1")
  /\ LET r == Wrote([req[s] EXCEPT !.id = id]) IN
       IF ~ok
       THEN /\ req' = [req EXCEPT ![s] = Catch(r)]
            /\ UNCHANGED <<listings, now>>
       ELSE /\ listings' = SoftDeleteListing(listings, id, now)
            /\ now' = Later(now)
            /\ req' = [req EXCEPT ![s] =
                         IF id \notin DOMAIN listings
                         THEN Respond(r, 404, NoData)
                         ELSE Respond(r, 200, NoData)]
  /\ UNCHANGED <<users, marketplace_accounts, ebay_listings, admin_activity_log, issued, delivered>>

\* GET /system: SELECT NOW(), then the three table counts
system(s, ok) ==
  /\ RunningIn(s, "system", {"q1", "q2"})
  /\ LET r == Issued(req[s]) IN
       req' = [req EXCEPT ![s] =
         IF ~ok THEN Catch(r)
         ELSE IF r.pc = "q1" THEN [r EXCEPT !.pc = "q2", !.res = [connected |-> TRUE]]
         ELSE Respond(r, 200,
                [connected |-> r.res.connected,
                 tables |-> [users |-> Cardinality(DOMAIN users),
                             listings |-> Cardinality(Undeleted(listings)),
                             marketplace_accounts |-> Cardinality(DOMAIN marketplace_accounts)]])]
  /\ UNCHANGED <<store, now, issued, delivered>>

\* created_at >= NOW() - INTERVAL '7 days'
AnalyticsDays == 7

\* GET /analytics: user growth, then listing growth
analytics(s, ok) ==
  /\ RunningIn(s, "analytics", {"q1", "q2"})
  /\ LET r == Issued(req[s]) IN
       req' = [req EXCEPT ![s] =
         IF ~ok THEN Catch(r)
         ELSE IF r.pc = "q1"
         THEN [r EXCEPT !.pc = "q2",
                 !.res = [userGrowth |->
                   GrowthRows(users, {u \in DOMAIN users :
                                        users[u].created_at >= now - AnalyticsDays})]]
         ELSE Respond(r, 200,
                [userGrowth |-> r.res.userGrowth,
                 listingGrowth |->
                   GrowthRows(listings, {l \in Undeleted(listings) :
                                           listings[l].created_at >= now - AnalyticsDays})])]
  /\ UNCHANGED <<store, now, issued, delivered>>

Router ==
  \/ \E s \in Slots, h \in RouterHandlers, caller \in Ids : isAdmin(s, h, caller)
  \/ \E s \in Slots, ok \in BOOLEAN :
       \/ dashboard(s, ok)
       \/ getAllUsers(s, ok)
       \/ \E id \in Ids : getUser(s, id, ok)
       \/ \E id \in Ids, body \in Bodies : putUser(s, id, body, ok)
       \/ \E id \in Ids : deleteUserListings(s, id, ok)
       \/ deleteUserRow(s, ok)
       \/ getListings(s, ok)
       \/ \E id \in ListingIds : deleteListing(s, id, ok)
       \/ system(s, ok)
       \/ analytics(s, ok)

(* ---- controller: src/backend/src/controllers/adminController.ts ------- *)
\* the first pc of a controller handler once the admin check has passed
FirstPc(h) == IF h = "getDashboardMetrics" THEN "parallel" ELSE "q1"

\* a request for a controller handler arrives and the handler runs its own
\* admin check; in getDashboardMetrics a caller that passes has the seven
\* reads of the Promise.all issued at once
adminCheck(s, h, caller, ok) ==
  /\ Accepts(s)
  /\ issued < MaxRequests
  /\ issued' = issued + 1
  /\ LET r == NewReq(h, caller) IN
       req' = [req EXCEPT ![s] =
         IF ~ok THEN Catch(r)
         ELSE IF ~IsAdminRow(users, caller)
         THEN Respond([r EXCEPT !.gate = "denied"], 403, NoData)
         ELSE IF h = "getDashboardMetrics"
         THEN [r EXCEPT !.gate = "passed", !.pc = FirstPc(h),
                        !.pending = ParallelReads,
                        !.queries = Cardinality(ParallelReads)]
         ELSE [r EXCEPT !.gate = "passed", !.pc = FirstPc(h)]]
  /\ UNCHANGED <<store, now, delivered>>

\* INTERVAL '7 days' of recentUsersResult, INTERVAL '30 days' of activeUsersResult
RecentDays == 7
ActiveDays == 30

\* SELECT subscription_tier, COUNT(*) FROM users GROUP BY subscription_tier:
\* one row for each value of the column, NULL included
TierCounts(us) ==
  {[subscription_tier |-> t,
    count |-> Cardinality({u \in DOMAIN us : us[u].subscription_tier = t})] :
     t \in {us[u].subscription_tier : u \in DOMAIN us}}

\* the property name acc[row.subscription_tier] writes to: the tier, and "null"
\* for a NULL tier
TierKey(t) == IF t = Null THEN "null" ELSE t[1]

\* a reduce that starts from an object with a 0 for every known tier
Subscriptions_zeroFilled(rows) ==
  [k \in {TierKey(row.subscription_tier) : row \in rows}
            \cup {"free", "premium", "premium_plus"} |->
     IF \E row \in rows : TierKey(row.subscription_tier) = k
     THEN (CHOOSE row \in rows : TierKey(row.subscription_tier) = k).count
     ELSE 0]

\* subscriptionTiersResult.rows.reduce((acc, row) => { acc[row.subscription_tier]
\* = parseInt(row.count); return acc }, {})
Subscriptions(rows) ==
  [k \in {TierKey(row.subscription_tier) : row \in rows} |->
     (CHOOSE row \in rows : TierKey(row.subscription_tier) = k).count]

\* the row set of one of the seven parallel reads
ParallelRead(q) ==
  CASE q = "usersResult" -> Cardinality(DOMAIN users)
    [] q = "listingsResult" -> Cardinality(DOMAIN listings)
    [] q = "marketplaceAccountsResult" ->
         Cardinality({a \in DOMAIN marketplace_accounts : marketplace_accounts[a].is_active})
    [] q = "ebayListingsResult" -> Cardinality(ebay_listings)
    [] q = "subscriptionTiersResult" -> TierCounts(users)
    [] q = "recentUsersResult" ->
         Cardinality({u \in DOMAIN users : users[u].created_at > now - RecentDays})
    [] q = "activeUsersResult" ->
         Cardinality({listings[l].user_id : l \in
                        {x \in DOMAIN listings : listings[x].created_at > now - ActiveDays}})

\* the reads of the Promise.all whose rows no handler writes and that do not
\* use NOW(): they return the same rows whenever they run
StableReads == <<"listingsResult", "marketplaceAccountsResult", "ebayListingsResult">>

\* the seven reads are answered in any order; as the stable reads commute
\* with every other step, they are taken first, in the order of the source
Ready(q, pending) ==
  IF \E i \in DOMAIN StableReads : StableReads[i] \in pending
  THEN \E i \in DOMAIN StableReads :
         /\ q = StableReads[i]
         /\ \A j \in 1..(i - 1) : StableReads[j] \notin pending
  ELSE TRUE

\* the seven reads awaited with Promise.allSettled: a read that rejects is
\* taken as a count of 0 and the handler goes on
parallel_allSettled(s, q, ok) ==
  /\ Running(s, "getDashboardMetrics", "parallel")
  /\ q \in req[s].pending
  /\ Ready(q, req[s].pending)
  /\ LET r == IF ok THEN req[s] ELSE Rejected(req[s]) IN
       req' = [req EXCEPT ![s] =
         [r EXCEPT !.pending = @ \ {q},
                   !.res = (q :> IF ok THEN ParallelRead(q)
                                 ELSE IF q = "subscriptionTiersResult" THEN {} ELSE 0) @@ r.res,
                   !.pc = IF r.pending = {q} THEN "status" ELSE "parallel",
                   !.queries = IF r.pending = {q} THEN @ + 1 ELSE @]]
  /\ UNCHANGED <<store, now, issued, delivered>>

\* getDashboardMetrics: one of the seven reads is answered; Promise.all
\* rejects with the first read that rejects and resolves with the last answer
parallel(s, q, ok) ==
  /\ Running(s, "getDashboardMetrics", "parallel")
  /\ q \in req[s].pending
  /\ Ready(q, req[s].pending)
  /\ LET r == req[s] IN
       req' = [req EXCEPT ![s] =
         IF ~ok THEN Catch(r)
         ELSE [r EXCEPT !.pending = @ \ {q},
                        !.res = (q :> ParallelRead(q)) @@ r.res,
                        !.pc = IF r.pending = {q} THEN "status" ELSE "parallel",
                        !.queries = IF r.pending = {q} THEN @ + 1 ELSE @]]
  /\ UNCHANGED <<store, now, issued, delivered>>

\* COUNT(*) FILTER (WHERE status = ...) FROM listings
ListingsByStatus(ls) ==
  [st \in {"draft", "active", "sold", "archived"} |->
     Cardinality({l \in DOMAIN ls : ls[l].status = st})]

\* COUNT(l.id) of users u LEFT JOIN listings l ON u.id = l.user_id GROUP BY u.id
ListingCount(ls, u) == Cardinality({l \in DOMAIN ls : ls[l].user_id = u})

\* LIMIT 10 of the top users read
TopLimit == 10

Min(a, b) == IF a < b THEN a ELSE b

\* the users of S with the most listings
MostListings(ls, S) ==
  {u \in S : \A v \in S : ListingCount(ls, u) >= ListingCount(ls, v)}

\* the first n rows of the users S in an order that is non-increasing in
\* listing_count: rows with equal counts come in any order
RECURSIVE TopRows(_, _, _)
TopRows(ls, S, n) ==
  IF S = {} \/ n = 0 THEN {<<>>}
  ELSE UNION {{<<[id |-> u, listing_count |-> ListingCount(ls, u)]>> \o rest :
                 rest \in TopRows(ls, S \ {u}, n - 1)} : u \in MostListings(ls, S)}

\* a top users read without the LIMIT
TopUsers_unlimited(us, ls) == TopRows(ls, DOMAIN us, Cardinality(DOMAIN us))

\* users u LEFT JOIN listings l ... GROUP BY u.id ORDER BY listing_count DESC
\* LIMIT 10
TopUsers(us, ls) == TopRows(ls, DOMAIN us, TopLimit)

\* COUNT(*) FILTER (WHERE subscription_tier = tier) FROM users
TierCount(us, tier) == Cardinality({u \in DOMAIN us : us[u].subscription_tier = <<tier>>})

\* the decimal digits
Digits == <<"0", "1", "2", "3", "4", "5", "6", "7", "8", "9">>
IsDigit(c) == \E i \in DOMAIN Digits : Digits[i] = c
DigitValue(c) == (CHOOSE i \in DOMAIN Digits : Digits[i] = c) - 1

\* an estimate with the prices rounded to whole dollars
MonthlyRevenue_rounded(premiumCount, premiumPlusCount) ==
  premiumCount * 500 + premiumPlusCount * 1000

\* premiumCount * 4.99 + premiumPlusCount * 9.99, in cents
MonthlyRevenue(premiumCount, premiumPlusCount) == premiumCount * 499 + premiumPlusCount * 999

\* the decimal digits of a number n >= 0
RECURSIVE NumberToString(_)
NumberToString(n) ==
  IF n < 10 THEN <<Digits[n + 1]>>
  ELSE Append(NumberToString(n \div 10), Digits[(n % 10) + 1])

\* x.toFixed(2) of an amount x >= 0 given in cents
ToFixed(cents) ==
  NumberToString(cents \div 100) \o
    <<".", Digits[((cents % 100) \div 10) + 1], Digits[(cents % 10) + 1]>>

\* the metrics object built from the results of all reads
Metrics(res) ==
  [overview |-> [totalUsers |-> res.usersResult,
                 totalListings |-> res.listingsResult,
                 connectedAccounts |-> res.marketplaceAccountsResult,
                 ebayListings |-> res.ebayListingsResult,
                 recentUsers |-> res.recentUsersResult,
                 activeUsers |-> res.activeUsersResult],
   subscriptions |-> Subscriptions(res.subscriptionTiersResult),
   listings |-> res.listingsByStatusResult,
   revenue |-> [monthlyRevenue |->
                  ToFixed(MonthlyRevenue(res.premium_count, res.premium_plus_count)),
                annualRevenue |->
                  ToFixed(MonthlyRevenue(res.premium_count, res.premium_plus_count) * 12),
                premiumUsers |-> res.premium_count,
                premiumPlusUsers |-> res.premium_plus_count],
   topUsers |-> res.topUsersResult]

\* getDashboardMetrics: the listings-by-status read
listingsByStatus(s, ok) ==
  /\ Running(s, "getDashboardMetrics", "status")
  /\ LET r == req[s] IN
       req' = [req EXCEPT ![s] =
         IF ~ok THEN Catch(r)
         ELSE Issued([r EXCEPT !.pc = "top",
                        !.res = ("listingsByStatusResult" :> ListingsByStatus(listings)) @@ r.res])]
  /\ UNCHANGED <<store, now, issued, delivered>>

\* getDashboardMetrics: the top users read
topUsers(s, ok) ==
  /\ Running(s, "getDashboardMetrics", "top")
  /\ LET r == req[s] IN
       \E rows \in TopUsers(users, listings) :
         req' = [req EXCEPT ![s] =
           IF ~ok THEN Catch(r)
           ELSE Issued([r EXCEPT !.pc = "revenue",
                          !.res = ("topUsersResult" :> rows) @@ r.res])]
  /\ UNCHANGED <<store, now, issued, delivered>>

\* getDashboardMetrics: the revenue read; the metrics object is built and the
\* audit insert is issued
revenue(s, ok) ==
  /\ Running(s, "getDashboardMetrics", "revenue")
  /\ LET r == req[s] IN
       req' = [req EXCEPT ![s] =
         IF ~ok THEN Catch(r)
         ELSE Wrote([r EXCEPT !.pc = "audit",
                       !.res = Metrics([premium_count |-> TierCount(users, "premium"),
                                        premium_plus_count |-> TierCount(users, "premium_plus")]
                                       @@ r.res)])]
  /\ UNCHANGED <<store, now, issued, delivered>>

\* an audit row with another action tag
AuditRow_untagged(admin) == [admin_id |-> admin, action |-> "login"]

\* INSERT INTO admin_activity_log (admin_id, action, details, ip_address)
AuditRow(admin) == [admin_id |-> admin, action |-> "view_dashboard"]

\* getDashboardMetrics: the audit insert is answered and the response is sent
audit(s, ok) ==
  /\ Running(s, "getDashboardMetrics", "audit")
  /\ LET r == req[s] IN
       IF ~ok
       THEN /\ req' = [req EXCEPT ![s] = Catch(r)]
            /\ UNCHANGED admin_activity_log
       ELSE /\ admin_activity_log' = Append(admin_activity_log, AuditRow(r.userId))
            /\ req' = [req EXCEPT ![s] = Respond(r, 200, r.res)]
  /\ UNCHANGED <<users, listings, marketplace_accounts, ebay_listings, now, issued, delivered>>

\* const { page = 1, limit = 50, search = '', tier = '' } = req.query
DefaultPage == 1
DefaultLimit == 50

\* a JavaScript number: a finite integer, NaN or Infinity
Num(n) == [kind |-> "finite", val |-> n]
NaN == [kind |-> "NaN", val |-> 0]
Infinity == [kind |-> "Infinity", val |-> 0]
IsFinite(x) == x.kind = "finite"

\* the value of the longest prefix of decimal digits
RECURSIVE DigitsValue(_, _)
DigitsValue(str, acc) ==
  IF str = <<>> \/ ~IsDigit(Head(str)) THEN acc
  ELSE DigitsValue(Tail(str), 10 * acc + DigitValue(Head(str)))

RECURSIVE TrimStart(_)
TrimStart(str) == IF str # <<>> /\ Head(str) = " " THEN TrimStart(Tail(str)) ELSE str

\* parseInt(str): leading blanks and a sign are skipped, the digits up to the
\* first other character are read, and without a digit the result is NaN
ParseInt(str) ==
  LET t == TrimStart(str)
      signed == t # <<>> /\ Head(t) \in {"-", "+"}
      body == IF signed THEN Tail(t) ELSE t
  IN IF body = <<>> \/ ~IsDigit(Head(body)) THEN NaN
     ELSE IF signed /\ Head(t) = "-" THEN Num(0 - DigitsValue(body, 0))
     ELSE Num(DigitsValue(body, 0))

\* parseInt(page as string), parseInt(limit as string), search and tier, with
\* the defaults of the destructuring for a parameter the request lacks
PageOf(query) == IF "page" \in DOMAIN query THEN ParseInt(query.page) ELSE Num(DefaultPage)
LimitOf(query) == IF "limit" \in DOMAIN query THEN ParseInt(query.limit) ELSE Num(DefaultLimit)
SearchOf(query) == IF "search" \in DOMAIN query THEN query.search ELSE <<>>
TierOf(query) == IF "tier" \in DOMAIN query THEN query.tier ELSE ""

\* an offset that skips the requested page as well
Offset_fromPage(page, limit) ==
  IF IsFinite(page) /\ IsFinite(limit) THEN Num(page.val * limit.val) ELSE NaN

\* (parseInt(page) - 1) * parseInt(limit)
Offset(page, limit) ==
  IF IsFinite(page) /\ IsFinite(limit) THEN Num((page.val - 1) * limit.val) ELSE NaN

\* Math.ceil(total / parseInt(limit)) for a total >= 0
TotalPages(total, limit) ==
  IF ~IsFinite(limit) THEN NaN
  ELSE IF limit.val = 0 THEN (IF total = 0 THEN NaN ELSE Infinity)
  ELSE IF limit.val > 0 THEN Num((total + limit.val - 1) \div limit.val)
  ELSE Num(0 - (total \div (0 - limit.val)))

\* `%${search}%`
Pattern(search) == <<"%">> \o search \o <<"%">>

\* the pieces of SQL text the handler appends, each with the numbers of the
\* placeholders $n written into it
SearchClause(i) == [clause |-> "search", username |-> i, email |-> i + 1]
\* a tier clause that always writes $1
TierClause_unshifted(i) == [clause |-> "tier", tier |-> 1]

TierClause(i) == [clause |-> "tier", tier |-> i]
WindowClause(i) == [clause |-> "window", limit |-> i, offset |-> i + 1]

\* a page query whose search text is written into the SQL text
PageQuery_interpolated(query) ==
  LET search == SearchOf(query)
      tier == TierOf(query)
      text1 == <<[clause |-> "users joined"]>> \o
                 (IF search # <<>>
                  THEN <<[clause |-> "search", username |-> 1, email |-> 2,
                          literal |-> Pattern(search)]>>
                  ELSE <<>>)
      params1 == IF search # <<>> THEN <<Pattern(search), Pattern(search)>> ELSE <<>>
      index1 == IF search # <<>> THEN 3 ELSE 1
      text2 == IF tier # "" THEN Append(text1, TierClause(index1)) ELSE text1
      params2 == IF tier # "" THEN Append(params1, tier) ELSE params1
      index2 == IF tier # "" THEN index1 + 1 ELSE index1
  IN [text |-> Append(text2, WindowClause(index2)),
      params |-> params2 \o <<LimitOf(query), Offset(PageOf(query), LimitOf(query))>>]

\* the page query of getUsers and its params array
PageQuery(query) ==
  LET search == SearchOf(query)
      tier == TierOf(query)
      text1 == <<[clause |-> "users joined"]>> \o
                 (IF search # <<>> THEN <<SearchClause(1)>> ELSE <<>>)
      params1 == IF search # <<>> THEN <<Pattern(search), Pattern(search)>> ELSE <<>>
      index1 == IF search # <<>> THEN 3 ELSE 1
      text2 == IF tier # "" THEN Append(text1, TierClause(index1)) ELSE text1
      params2 == IF tier # "" THEN Append(params1, tier) ELSE params1
      index2 == IF tier # "" THEN index1 + 1 ELSE index1
  IN [text |-> Append(text2, WindowClause(index2)),
      params |-> params2 \o <<LimitOf(query), Offset(PageOf(query), LimitOf(query))>>]

\* a count query that leaves out the tier filter
CountQuery_noTier(query) ==
  LET search == SearchOf(query)
  IN [text |-> <<[clause |-> "users"]>> \o
                 (IF search # <<>> THEN <<SearchClause(1)>> ELSE <<>>),
      params |-> IF search # <<>> THEN <<Pattern(search), Pattern(search)>> ELSE <<>>]

\* the count query of getUsers and its countParams array
CountQuery(query) ==
  LET search == SearchOf(query)
      tier == TierOf(query)
      text1 == <<[clause |-> "users"]>> \o
                 (IF search # <<>> THEN <<SearchClause(1)>> ELSE <<>>)
      params1 == IF search # <<>> THEN <<Pattern(search), Pattern(search)>> ELSE <<>>
      index1 == IF search # <<>> THEN 3 ELSE 1
  IN [text |-> IF tier # "" THEN Append(text1, TierClause(index1)) ELSE text1,
      params |-> IF tier # "" THEN Append(params1, tier) ELSE params1]

UpperCase ==
  <<"A", "B", "C", "D", "E", "F", "G", "H", "I", "J", "K", "L", "M",
    "N", "O", "P", "Q", "R", "S", "T", "U", "V", "W", "X", "Y", "Z">>
LowerCase ==
  <<"a", "b", "c", "d", "e", "f", "g", "h", "i", "j", "k", "l", "m",
    "n", "o", "p", "q", "r", "s", "t", "u", "v", "w", "x", "y", "z">>

\* ILIKE compares two characters without regard to case
Fold(c) ==
  IF \E i \in DOMAIN UpperCase : UpperCase[i] = c
  THEN LowerCase[CHOOSE i \in DOMAIN UpperCase : UpperCase[i] = c]
  ELSE c

\* str ILIKE pattern: % stands for any characters, _ for any one character,
\* a backslash takes the next character as it is, every other character
\* stands for itself in either case
RECURSIVE Like(_, _)
Like(pattern, str) ==
  IF pattern = <<>> THEN str = <<>>
  ELSE IF Head(pattern) = "%"
  THEN Like(Tail(pattern), str) \/ (str # <<>> /\ Like(pattern, Tail(str)))
  ELSE IF Head(pattern) = "_"
  THEN str # <<>> /\ Like(Tail(pattern), Tail(str))
  ELSE IF Head(pattern) = "\\" /\ Len(pattern) > 1
  THEN /\ str # <<>>
       /\ Fold(pattern[2]) = Fold(Head(str))
       /\ Like(Tail(Tail(pattern)), Tail(str))
  ELSE /\ str # <<>>
       /\ Fold(Head(pattern)) = Fold(Head(str))
       /\ Like(Tail(pattern), Tail(str))

\* column ILIKE $n: no match on a NULL column
ILike(col, pattern) == col # Null /\ Like(pattern, col[1])

\* the WHERE clauses of a statement, with its bound parameters, hold of user u
Where(us, u, stmt) ==
  \A k \in DOMAIN stmt.text :
    LET c == stmt.text[k] IN
      CASE c.clause = "search" ->
             \/ ILike(us[u].username, stmt.params[c.username])
             \/ ILike(us[u].email, stmt.params[c.email])
        [] c.clause = "tier" -> us[u].subscription_tier = <<stmt.params[c.tier]>>
        [] OTHER -> TRUE

\* LIMIT $n OFFSET $m: the store rejects a statement whose LIMIT or OFFSET
\* is not a number or is negative
ValidWindow(stmt) ==
  LET w == stmt.text[Len(stmt.text)]
      limit == stmt.params[w.limit]
      offset == stmt.params[w.offset]
  IN IsFinite(limit) /\ limit.val >= 0 /\ IsFinite(offset) /\ offset.val >= 0

\* COUNT(l.id) and COUNT(ma.id) of users u LEFT JOIN listings l LEFT JOIN
\* marketplace_accounts ma (active ones) GROUP BY u.id: every listing of u is
\* paired with every active account of u
UserRow(us, ls, mas, u) ==
  LET nl == Cardinality({l \in DOMAIN ls : ls[l].user_id = u})
      na == Cardinality({a \in DOMAIN mas : mas[a].user_id = u /\ mas[a].is_active})
  IN [id |-> u,
      listing_count |-> IF na = 0 THEN nl ELSE nl * na,
      connected_accounts |-> IF nl = 0 THEN na ELSE na * nl]

\* ORDER BY u.created_at DESC over the users S, as the sequences of ids the
\* store may return: the statement names no second sort key, so users with
\* the same created_at come in any order, and not in the same order in every
\* run of the statement
RECURSIVE OrdersByCreatedDesc(_, _)
OrdersByCreatedDesc(us, S) ==
  IF S = {} THEN {<<>>}
  ELSE UNION {{<<x>> \o rest : rest \in OrdersByCreatedDesc(us, S \ {x})} :
                x \in {y \in S : \A z \in S : us[y].created_at >= us[z].created_at}}

\* LIMIT limit OFFSET offset of the ordered ids, each with its row
Window(us, ls, mas, ids, limit, offset) ==
  LET n == IF Len(ids) > offset THEN Min(limit, Len(ids) - offset) ELSE 0
  IN [i \in 1..n |-> UserRow(us, ls, mas, ids[offset + i])]

\* a page query with inner joins: only users with a listing and an active
\* marketplace account have a row
PageRows_innerJoin(us, ls, mas, stmt) ==
  LET w == stmt.text[Len(stmt.text)]
  IN {Window(us, ls, mas, ids, stmt.params[w.limit].val, stmt.params[w.offset].val) :
        ids \in OrdersByCreatedDesc(us,
                  {u \in DOMAIN us :
                     /\ Where(us, u, stmt)
                     /\ \E l \in DOMAIN ls : ls[l].user_id = u
                     /\ \E a \in DOMAIN mas : mas[a].user_id = u /\ mas[a].is_active})}

\* the row sequences the page query may return: ... GROUP BY u.id
\* ORDER BY u.created_at DESC LIMIT $n OFFSET $m
PageRows(us, ls, mas, stmt) ==
  LET w == stmt.text[Len(stmt.text)]
  IN {Window(us, ls, mas, ids, stmt.params[w.limit].val, stmt.params[w.offset].val) :
        ids \in OrdersByCreatedDesc(us, {u \in DOMAIN us : Where(us, u, stmt)})}

\* the count of the count query: SELECT COUNT(*) FROM users WHERE ...
CountRows(us, stmt) == Cardinality({u \in DOMAIN us : Where(us, u, stmt)})

\* getUsers: the page query, then the count query
getUsers(s, query, ok) ==
  /\ RunningIn(s, "getUsers", {"q1", "q2"})
  /\ req[s].pc = "q2" => query = req[s].query
  /\ LET r == Issued(req[s])
         page == PageQuery(query)
     IN \E rows \in IF r.pc = "q1" /\ ok /\ ValidWindow(page)
                    THEN PageRows(users, listings, marketplace_accounts, page)
                    ELSE {NoRes} :
          req' = [req EXCEPT ![s] =
            IF r.pc = "q1"
            THEN LET r1 == [r EXCEPT !.query = query, !.sql = [page |-> page]]
                 IN IF ~ok \/ ~ValidWindow(page) THEN Catch(r1)
                    ELSE [r1 EXCEPT !.pc = "q2",
                                    !.sql = [page |-> page, count |-> CountQuery(query)],
                                    !.res = rows]
            ELSE IF ~ok THEN Catch(r)
            ELSE LET total == CountRows(users, r.sql.count) IN
                   Respond(r, 200,
                     [users |-> r.res,
                      pagination |-> [page |-> PageOf(query), limit |-> LimitOf(query),
                                      total |-> total,
                                      totalPages |-> TotalPages(total, LimitOf(query))]])]
  /\ UNCHANGED <<store, now, issued, delivered>>

\* const { days = 30 } = req.query
DefaultDays == 30

\* getSystemStats, with the default of days: signups, then listings per day
getSystemStats(s, ok) ==
  /\ RunningIn(s, "getSystemStats", {"q1", "q2"})
  /\ LET r == Issued(req[s]) IN
       req' = [req EXCEPT ![s] =
         IF ~ok THEN Catch(r)
         ELSE IF r.pc = "q1"
         THEN [r EXCEPT !.pc = "q2",
                 !.res = [signups |->
                   GrowthRows(users, {u \in DOMAIN users :
                                        users[u].created_at > now - DefaultDays})]]
         ELSE Respond(r, 200,
                [signups |-> r.res.signups,
                 listings |->
                   GrowthRows(listings, {l \in DOMAIN listings :
                                           listings[l].created_at > now - DefaultDays})])]
  /\ UNCHANGED <<store, now, issued, delivered>>

\* admin_activity_log aal JOIN users u ON aal.admin_id = u.id
\* ORDER BY aal.created_at DESC LIMIT $1: the rows were appended in the order
\* of their created_at, so the last row comes first
RECURSIVE ActivityRows(_, _, _)
ActivityRows(log, us, n) ==
  IF log = <<>> \/ n = 0 THEN <<>>
  ELSE LET last == log[Len(log)]
           rest == SubSeq(log, 1, Len(log) - 1)
       IN IF last.admin_id \in DOMAIN us
          THEN <<last>> \o ActivityRows(rest, us, n - 1)
          ELSE ActivityRows(rest, us, n)

\* getAdminActivity, with the default of limit
getAdminActivity(s, ok) ==
  /\ Running(s, "getAdminActivity", "q1")
  /\ LET r == Issued(req[s]) IN
       req' = [req EXCEPT ![s] =
         IF ~ok THEN Catch(r)
         ELSE Respond(r, 200, ActivityRows(admin_activity_log, users, DefaultLimit))]
  /\ UNCHANGED <<store, now, issued, delivered>>

Controller ==
  \/ \E s \in Slots, h \in ControllerHandlers, caller \in Ids, ok \in BOOLEAN :
       adminCheck(s, h, caller, ok)
  \/ \E s \in Slots, ok \in BOOLEAN :
       \/ \E q \in ParallelReads : parallel(s, q, ok)
       \/ listingsByStatus(s, ok)
       \/ topUsers(s, ok)
       \/ revenue(s, ok)
       \/ audit(s, ok)
       \/ \E query \in Queries : getUsers(s, query, ok)
       \/ getSystemStats(s, ok)
       \/ getAdminActivity(s, ok)

\* what is kept of a response: its handler, route parameter and status, and
\* whether the user row of the route parameter existed at the first query
Delivery(r) ==
  [handler |-> r.handler, id |-> r.id, status |-> r.status,
   found |-> r.before # NoRes /\ r.id \in r.before.users]

\* the response has been sent: the slot is free again; with keep, the
\* response is added to those kept
finish(s, keep) ==
  /\ req[s].pc = "done"
  /\ req' = [req EXCEPT ![s] = IdleReq]
  /\ delivered' = IF keep THEN Append(delivered, Delivery(req[s])) ELSE delivered
  /\ UNCHANGED <<store, now, issued>>

Next ==
  \/ \E s \in Slots : finish(s, FALSE)
  \/ Router
  \/ Controller

Spec == Init /\ [][Next]_vars

(* ---- the user directory: getUsers over a larger users table ----------- *)
\* users next to those of InitUsers: 3 has no listing and no marketplace
\* account, 4 has two listings and two active marketplace accounts; 3 and 4
\* were inserted by one transaction and have the same created_at
DirectoryUsers ==
  InitUsers
  @@
  (3 :> [username |-> <<<<"z", "e", "d">>>>,
         email |-> <<<<"F", "o", "o", "@", "B", "a", "r", ".", "c", "o", "m">>>>,
         subscription_tier |-> <<"premium">>,
         points |-> <<5>>, is_admin |-> <<FALSE>>, created_at |-> -1, updated_at |-> -1])
  @@
  (4 :> [username |-> <<<<"a", "_", "b">>>>,
         email |-> <<<<"a", "b", "@", "q", "s", ".", "i", "o">>>>,
         subscription_tier |-> <<"premium_plus">>,
         points |-> <<9>>, is_admin |-> <<FALSE>>, created_at |-> -1, updated_at |-> -1])

DirectoryListings ==
  InitListings
  @@
  (4 :> [user_id |-> 4, status |-> "active", created_at |-> -1, deleted_at |-> NoTime])
  @@
  (5 :> [user_id |-> 4, status |-> "archived", created_at |-> -1, deleted_at |-> NoTime])

DirectoryAccounts ==
  InitAccounts
  @@
  (3 :> [user_id |-> 4, is_active |-> TRUE])
  @@
  (4 :> [user_id |-> 4, is_active |-> TRUE])

\* the users tables getUsers is run on: the admin alone up to all four users
Directories == {{1}, {1, 3}, {1, 2, 3}, {1, 2, 3, 4}}

\* the rows of table t whose owner is one of the users S
OwnedBy(t, S) == [x \in {y \in DOMAIN t : t[y].user_id \in S} |-> t[x]]

\* the search texts of the query strings
Searches ==
  { <<"f", "o", "o">>, <<"F", "O", "O">>, <<"_">>, <<"%">>, <<"z", "z">>,
    <<"a", "n">>, <<"@", "b">> }

\* the query strings sent to getUsers
UserQueries ==
  { [page |-> p, limit |-> l] :
      p \in {<<"1">>, <<"2">>, <<"3">>, <<"4">>, <<"0">>, <<"x">>},
      l \in {<<"1">>, <<"2">>, <<"3">>, <<"0">>, <<"-", "2">>, <<"x">>, <<"2", "x">>} }
  \cup { NoQuery, [page |-> <<"2">>], [limit |-> <<"0">>], [page |-> <<>>] }
  \cup { [search |-> x] : x \in Searches }
  \cup { [search |-> x, tier |-> "premium"] : x \in Searches }
  \cup { [tier |-> t] : t \in {"premium", "free", "gold"} }
  \cup { [page |-> <<"0">>, limit |-> <<"2">>, search |-> <<"z", "z">>],
         [page |-> <<"2">>, limit |-> <<"1">>, search |-> <<"q", "s">>] }

UsersInit ==
  /\ \E S \in Directories :
       /\ users = [u \in S |-> DirectoryUsers[u]]
       /\ listings = OwnedBy(DirectoryListings, S)
       /\ marketplace_accounts = OwnedBy(DirectoryAccounts, S)
  /\ ebay_listings = {1}
  /\ admin_activity_log = <<>>
  /\ now = 1
  /\ req = [s \in Slots |-> IdleReq]
  /\ issued = 0
  /\ delivered = <<>>

UsersNext ==
  \/ \E s \in Slots : finish(s, FALSE)
  \/ \E s \in Slots, caller \in Ids, ok \in BOOLEAN : adminCheck(s, "getUsers", caller, ok)
  \/ \E s \in Slots, query \in UserQueries, ok \in BOOLEAN : getUsers(s, query, ok)

UsersSpec == UsersInit /\ [][UsersNext]_vars

(* ---- the metrics report: getDashboardMetrics over larger tables -------- *)
\* the contents of the users and listings tables the report is computed on,
\* each given by the subscription tier and the number of listings of user
\* 1, 2, ...; user 1 is the admin
Ranked == [tiers |-> <<"premium", "free", "premium_plus", "free">>, counts |-> <<5, 5, 2, 0>>]
Paying ==
  [tiers |-> [u \in 1..16 |-> IF u <= 10 THEN "premium"
                              ELSE IF u <= 15 THEN "premium_plus" ELSE "free"],
   counts |-> <<6, 6, 5, 4, 4, 3, 3, 2, 2, 1, 1, 0, 0, 0, 0, 0>>]
Alone == [tiers |-> <<"free">>, counts |-> <<0>>]
Shapes == {Ranked, Paying, Alone}

UsersOf(shape) ==
  [u \in DOMAIN shape.tiers |->
     [username |-> <<<<"u">> \o NumberToString(u)>>,
      email |-> <<<<"u">> \o NumberToString(u) \o <<"@", "q", "s", ".", "i", "o">>>>,
      subscription_tier |-> <<shape.tiers[u]>>,
      points |-> <<0>>, is_admin |-> <<u = 1>>,
      created_at |-> 0 - u, updated_at |-> 0 - u]]

ListingsOf(shape) ==
  [l \in UNION {{10 * u + j : j \in 1..shape.counts[u]} : u \in DOMAIN shape.counts} |->
     [user_id |-> l \div 10, status |-> IF l % 2 = 0 THEN "active" ELSE "draft",
      created_at |-> 0 - (l % 10), deleted_at |-> NoTime]]

MetricsInit ==
  /\ \E shape \in Shapes :
       /\ users = UsersOf(shape)
       /\ listings = ListingsOf(shape)
  /\ marketplace_accounts = InitAccounts
  /\ ebay_listings = {1}
  /\ admin_activity_log = <<>>
  /\ now = 1
  /\ req = [s \in Slots |-> IdleReq]
  /\ issued = 0
  /\ delivered = <<>>

MetricsNext ==
  \/ \E s \in Slots : finish(s, FALSE)
  \/ \E s \in Slots, caller \in Ids, ok \in BOOLEAN :
       adminCheck(s, "getDashboardMetrics", caller, ok)
  \/ \E s \in Slots, ok \in BOOLEAN :
       \/ \E q \in ParallelReads : parallel(s, q, ok)
       \/ listingsByStatus(s, ok)
       \/ topUsers(s, ok)
       \/ revenue(s, ok)
       \/ audit(s, ok)

MetricsSpec == MetricsInit /\ [][MetricsNext]_vars

(* ---- user deletion: DELETE /users/:id requests, their responses kept ---- *)
DeleteNext ==
  \/ \E s \in Slots : finish(s, TRUE)
  \/ \E s \in Slots, caller \in Ids : isAdmin(s, "deleteUser", caller)
  \/ \E s \in Slots, id \in Ids, ok \in BOOLEAN : deleteUserListings(s, id, ok)
  \/ \E s \in Slots, ok \in BOOLEAN : deleteUserRow(s, ok)

DeleteSpec == Init /\ [][DeleteNext]_vars

(* ---- checked properties ---------------------------------------------- *)
\* the caller has a users row with the admin flag set
CallerIsAdmin(caller) == \E u \in DOMAIN users : u = caller /\ users[u].is_admin = <<TRUE>>

\* the step in which a request arrives in slot s
Arrives(s) == req[s].pc = "idle" /\ req'[s].pc # "idle"

\* the step in which the request in slot s gets the answer to a query
Steps(s) == req[s].pc \notin {"idle", "done"} /\ req'[s] # req[s]

\* the listings with deleted_at IS NULL
Live == {l \in DOMAIN listings : listings[l].deleted_at = NoTime}

\* C1: a request of a caller without users row or without admin flag (and
\* whose admin check the store answers) is answered 403 Forbidden in a step
\* that leaves every table unchanged, and no query of the handler is issued
\* for it: in getDashboardMetrics no aggregate read and no audit insert
C1_NonAdminForbidden ==
  [][\A s \in Slots :
       (Arrives(s) /\ ~CallerIsAdmin(req'[s].userId) /\ ~req'[s].threw) =>
         /\ req'[s].pc = "done"
         /\ req'[s].status = 403
         /\ req'[s].data = NoData
         /\ req'[s].queries = 0
         /\ req'[s].writes = 0
         /\ req'[s].pending = {}
         /\ store' = store]_vars

\* a controller handler has answered 403 to a caller without users row
C1_Witness ==
  \E s \in Slots :
    /\ req[s].handler \in ControllerHandlers
    /\ req[s].pc = "done"
    /\ req[s].status = 403
    /\ req[s].userId \notin DOMAIN users

\* C2: in getDashboardMetrics the step that gets the outcome of the audit
\* insert (all reads have succeeded) responds 200 with the computed metrics,
\* whether the insert is answered or rejects
C2_AuditBestEffort ==
  [][\A s \in Slots :
       (Running(s, "getDashboardMetrics", "audit") /\ Steps(s)) =>
         /\ req'[s].pc = "done"
         /\ req'[s].status = 200
         /\ req'[s].data = req[s].res]_vars

\* C3: once DELETE /users/:id has finished, either the user row is gone and
\* all listings of that user are soft-deleted, or the user row and the
\* user's listings are as the handler found them
C3_DeleteUserAtomic ==
  \A s \in Slots :
    (req[s].handler = "deleteUser" /\ req[s].pc = "done" /\ req[s].gate = "passed") =>
      LET i == req[s].id
          b == req[s].before
          owned == {l \in DOMAIN listings : listings[l].user_id = i}
      IN \/ /\ i \notin DOMAIN users
            /\ \A l \in owned : listings[l].deleted_at # NoTime
         \/ /\ (i \in DOMAIN users) <=> (i \in b.users)
            /\ \A l \in owned : listings[l] = b.listings[l]

\* C4: in no state is a user row gone while a listing of that user is still
\* undeleted, and no listing that GET /listings returns belongs to a user
\* whose row is gone
C4_ListingsGoBeforeUser ==
  /\ \A l \in DOMAIN listings :
       listings[l].user_id \notin DOMAIN users => listings[l].deleted_at # NoTime
  /\ \A s \in Slots :
       (req[s].handler = "getListings" /\ req[s].status = 200) =>
         \A k \in DOMAIN req[s].data.listings :
           listings[req[s].data.listings[k]].user_id \in DOMAIN users

\* GET /listings has answered after a user with listings was deleted
C4_Witness ==
  \E s \in Slots :
    /\ req[s].handler = "getListings"
    /\ req[s].status = 200
    /\ \E l \in DOMAIN listings : listings[l].user_id \notin DOMAIN users

\* C5: every step of DELETE /users/:id for an id without user row leaves
\* every table unchanged, and the handler answers 404 unless a query rejects
C5_DeleteMissingUserNoChange ==
  [][\A s \in Slots :
       (/\ req[s].handler = "deleteUser"
        /\ Steps(s)
        /\ req'[s].id \notin DOMAIN users) =>
         /\ store' = store
         /\ (req'[s].pc = "done" /\ ~req'[s].threw) => req'[s].status = 404]_vars

\* C6: no step removes a listing row or clears a deleted_at; a successful
\* DELETE /listings/:id changes only the deleted_at of its listing, to
\* non-null; and the rows of GET /listings, the total listings read of GET
\* /dashboard and the listing count of GET /system leave out every listing
\* with a deleted_at
C6_ListingDeleteIsSoft ==
  [][/\ DOMAIN listings' = DOMAIN listings
     /\ \A l \in DOMAIN listings :
          listings[l].deleted_at # NoTime => listings'[l].deleted_at # NoTime
     /\ \A s \in Slots :
          /\ (Running(s, "deleteListing", "q1") /\ req'[s].status = 200) =>
               /\ listings'[req'[s].id].deleted_at # NoTime
               /\ users' = users
               /\ \A l \in DOMAIN listings :
                    /\ l # req'[s].id => listings'[l] = listings[l]
                    /\ [listings'[l] EXCEPT !.deleted_at = NoTime]
                         = [listings[l] EXCEPT !.deleted_at = NoTime]
          /\ (Running(s, "getListings", "q1") /\ req'[s].status = 200) =>
               /\ req'[s].data.total = Cardinality(Live)
               /\ \A k \in DOMAIN req'[s].data.listings : req'[s].data.listings[k] \in Live
          /\ (Running(s, "dashboard", "q2") /\ req'[s].pc = "q3") =>
               req'[s].res.totalListings = Cardinality(Live)
          /\ (Running(s, "dashboard", "q4") /\ req'[s].status = 200) =>
               req'[s].data.totalListings = req[s].res.totalListings
          /\ (Running(s, "system", "q2") /\ req'[s].status = 200) =>
               req'[s].data.tables.listings = Cardinality(Live)]_vars

\* DELETE /listings/:id has answered 200 and its listing has a deleted_at
C6_Witness ==
  \E s \in Slots :
    /\ req[s].handler = "deleteListing"
    /\ req[s].status = 200
    /\ listings[req[s].id].deleted_at # NoTime

\* C7: DELETE /listings/:id for an id without undeleted listing row leaves
\* the listings unchanged and answers 404 unless the query rejects
C7_DeleteDeletedListingNotFound ==
  [][\A s \in Slots :
       (/\ Running(s, "deleteListing", "q1")
        /\ Steps(s)
        /\ req'[s].id \notin Live) =>
         /\ listings' = listings
         /\ ~req'[s].threw => req'[s].status = 404]_vars

\* C8: PUT /users/:id for an id without user row leaves every user and
\* listing row unchanged and answers 404 unless the query rejects
C8_PutMissingUserNotFound ==
  [][\A s \in Slots :
       (/\ Running(s, "putUser", "q1")
        /\ Steps(s)
        /\ req'[s].id \notin DOMAIN users) =>
         /\ users' = users
         /\ listings' = listings
         /\ ~req'[s].threw => (req'[s].status = 404 /\ req'[s].data = NoData)]_vars

\* PUT /users/:id has answered 404 for an id without user row
C8_Witness ==
  \E s \in Slots :
    /\ req[s].handler = "putUser"
    /\ req[s].status = 404
    /\ req[s].id \notin DOMAIN users

\* the columns PUT /users/:id takes from the body
UserFields == {"username", "email", "subscription_tier", "points", "is_admin"}

\* C9: a successful PUT /users/:id sets on the target row the fields its
\* body holds, leaves the other fields of the row as they were and changes
\* no other user row
C9_PutChangesOnlyProvided ==
  [][\A s \in Slots :
       (Running(s, "putUser", "q1") /\ req'[s].status = 200) =>
         LET i == req'[s].id
             b == req'[s].body
         IN /\ DOMAIN users' = DOMAIN users
            /\ \A f \in UserFields :
                 users'[i][f] = IF f \in DOMAIN b THEN <<b[f]>> ELSE users[i][f]
            /\ \A u \in DOMAIN users \ {i} : users'[u] = users[u]]_vars

\* C10: a getDashboardMetrics request with a rejected query has ended with
\* the 500 envelope and no data; one answered 200 had none of its queries
\* rejected, all its reads answered and carries the whole metrics object
C10_MetricsAllOrNothing ==
  \A s \in Slots :
    req[s].handler = "getDashboardMetrics" =>
      /\ req[s].threw =>
           (req[s].pc = "done" /\ req[s].status = 500 /\ req[s].data = NoData)
      /\ req[s].status = 200 =>
           /\ ~req[s].threw
           /\ req[s].queries = Cardinality(ParallelReads) + 4
           /\ DOMAIN req[s].data =
                {"overview", "subscriptions", "listings", "revenue", "topUsers"}
      /\ req[s].data # NoData => req[s].status = 200

\* getDashboardMetrics has answered 500 after one of its aggregate reads
\* rejected
C10_Witness ==
  \E s \in Slots :
    /\ req[s].handler = "getDashboardMetrics"
    /\ req[s].status = 500
    /\ req[s].threw
    /\ req[s].queries >= Cardinality(ParallelReads)
    /\ req[s].writes = 0

\* C11: the listing-status breakdown read for a report (the listings-by-status
\* read of getDashboardMetrics, the status read of GET /dashboard) has
\* exactly the handler's status keys, every value is >= 0, and the values
\* add up to the number of listings with deleted_at IS NULL
C11_StatusBreakdownSums ==
  [][\A s \in Slots :
       /\ (Running(s, "getDashboardMetrics", "status") /\ req'[s].pc = "top") =>
            LET b == req'[s].res.listingsByStatusResult IN
              /\ DOMAIN b = {"draft", "active", "sold", "archived"}
              /\ \A k \in DOMAIN b : b[k] >= 0
              /\ b["draft"] + b["active"] + b["sold"] + b["archived"] = Cardinality(Live)
       /\ (Running(s, "dashboard", "q3") /\ req'[s].pc = "q4") =>
            LET d == req'[s].res IN
              /\ d.activeListings >= 0 /\ d.draftListings >= 0 /\ d.publishedListings >= 0
              /\ d.activeListings + d.draftListings + d.publishedListings
                   = Cardinality(Live)]_vars

\* the users that satisfy the filters of a getUsers query string
Matching(query) == {u \in DOMAIN users : Where(users, u, PageQuery(query))}

\* n is ceil(total / limit), for a limit > 0
IsCeil(n, total, limit) == (n - 1) * limit < total /\ total <= n * limit

\* the number of rows of the last page of total rows
LastPageRows(total, limit) ==
  IF total % limit # 0 THEN total - limit * (((total + limit - 1) \div limit) - 1) ELSE limit

\* the step in which getUsers gets the outcome of its page query
PageStep(s) == Running(s, "getUsers", "q1") /\ Steps(s)

\* the step in which getUsers gets the answer to its count query and responds
CountStep(s) == Running(s, "getUsers", "q2") /\ req'[s].status = 200

\* C12 as stated: in getUsers with a limit > 0, totalPages is ceil(total /
\* limit) for every total >= 0, and the request for the last page (page =
\* ceil(total / limit)) is a statement the store accepts and gets total -
\* limit * (totalPages - 1) rows when total % limit # 0 and limit rows
\* otherwise
C12_LastPage ==
  [][\A s \in Slots :
       /\ PageStep(s) =>
            LET q == req'[s].query
                page == PageOf(q)
                limit == LimitOf(q)
                total == Cardinality(Matching(q))
            IN (/\ IsFinite(limit) /\ limit.val > 0
                /\ IsFinite(page) /\ IsCeil(page.val, total, limit.val)) =>
                 /\ ValidWindow(PageQuery(q))
                 /\ ~req'[s].threw => Len(req'[s].res) = LastPageRows(total, limit.val)
       /\ CountStep(s) =>
            LET p == req'[s].data.pagination IN
              (IsFinite(p.limit) /\ p.limit.val > 0) =>
                /\ p.total = Cardinality(Matching(req'[s].query))
                /\ IsFinite(p.totalPages)
                /\ IsCeil(p.totalPages.val, p.total, p.limit.val)]_vars

\* C12, amended: the same for every total > 0; with total = 0, totalPages is
\* 0 and page 0 is no page
C12_LastPageOfSome ==
  [][\A s \in Slots :
       /\ PageStep(s) =>
            LET q == req'[s].query
                page == PageOf(q)
                limit == LimitOf(q)
                total == Cardinality(Matching(q))
            IN (/\ IsFinite(limit) /\ limit.val > 0
                /\ total > 0
                /\ IsFinite(page) /\ IsCeil(page.val, total, limit.val)) =>
                 /\ ValidWindow(PageQuery(q))
                 /\ ~req'[s].threw => Len(req'[s].res) = LastPageRows(total, limit.val)
       /\ CountStep(s) =>
            LET p == req'[s].data.pagination IN
              (IsFinite(p.limit) /\ p.limit.val > 0) =>
                /\ p.total = Cardinality(Matching(req'[s].query))
                /\ IsFinite(p.totalPages)
                /\ IsCeil(p.totalPages.val, p.total, p.limit.val)
                /\ p.total = 0 => p.totalPages.val = 0]_vars

\* getUsers has answered the last of several pages, which is not full
C12_Witness ==
  \E s \in Slots :
    /\ req[s].handler = "getUsers"
    /\ req[s].status = 200
    /\ LET p == req[s].data.pagination IN
         /\ IsFinite(p.limit) /\ p.limit.val > 1
         /\ IsFinite(p.totalPages) /\ p.totalPages.val > 1
         /\ p.page = p.totalPages
         /\ p.total % p.limit.val # 0
         /\ Len(req[s].data.users) = p.total - p.limit.val * (p.totalPages.val - 1)

\* C13: getUsers runs its page query only with a LIMIT and an OFFSET that
\* are numbers >= 0, and a page it answers carries a finite totalPages
C13_PageLimitCoerced ==
  [][\A s \in Slots :
       /\ PageStep(s) => ValidWindow(req'[s].sql.page)
       /\ CountStep(s) => IsFinite(req'[s].data.pagination.totalPages)]_vars

\* the text t occurs in the column value col without regard to case
Contains(col, t) ==
  /\ col # Null
  /\ \E i \in 0..(Len(col[1]) - Len(t)) :
       \A j \in 1..Len(t) : Fold(col[1][i + j]) = Fold(t[j])

\* the users the search text of a query string selects
Found(query) ==
  {u \in DOMAIN users :
     \/ SearchOf(query) = <<>>
     \/ Contains(users[u].username, SearchOf(query))
     \/ Contains(users[u].email, SearchOf(query))}

\* the ids of the rows of a page
RowIds(rows) == {rows[k].id : k \in DOMAIN rows}

\* the page query of the step of slot s returns all rows its filters select:
\* OFFSET 0 and a LIMIT of at least the number of users
WholePage(s) ==
  /\ PageStep(s)
  /\ req'[s].pc = "q2"
  /\ PageOf(req'[s].query) = Num(1)
  /\ LimitOf(req'[s].query).val >= Cardinality(DOMAIN users)

\* C14: in getUsers without tier filter the users of the page, and the users
\* counted in total, are those with the search text as case-insensitive
\* substring of username or email; an empty search selects every user
C14_SearchIsSubstring ==
  [][\A s \in Slots :
       /\ (WholePage(s) /\ TierOf(req'[s].query) = "") =>
            RowIds(req'[s].res) = Found(req'[s].query)
       /\ (CountStep(s) /\ TierOf(req'[s].query) = "") =>
            req'[s].data.pagination.total = Cardinality(Found(req'[s].query))]_vars

\* the placeholder numbers written into a piece of SQL text
Placeholders(c) == {c[f] : f \in DOMAIN c \ {"clause"}}

\* the statement holds nothing of the request but placeholders, each bound
\* in its parameter array
Parameterized(stmt) ==
  \A k \in DOMAIN stmt.text :
    /\ DOMAIN stmt.text[k] \subseteq {"clause", "username", "email", "tier", "limit", "offset"}
    /\ \A n \in Placeholders(stmt.text[k]) : n \in DOMAIN stmt.params

\* the same of search and tier are given in two query strings
SameFilters(q1, q2) ==
  /\ (SearchOf(q1) = <<>>) <=> (SearchOf(q2) = <<>>)
  /\ (TierOf(q1) = "") <=> (TierOf(q2) = "")

\* C15: the SQL texts of getUsers hold only placeholders, the search pattern
\* and the tier are bound in the parameter arrays, and any two requests with
\* the same of search and tier given have the same page query text and the
\* same count query text
C15_SqlTextFixed ==
  \A s, t \in Slots :
    (req[s].handler = "getUsers" /\ req[s].sql # NoRes) =>
      LET q == req[s].query IN
        /\ \A n \in DOMAIN req[s].sql : Parameterized(req[s].sql[n])
        /\ SearchOf(q) # <<>> =>
             /\ req[s].sql.page.params[1] = Pattern(SearchOf(q))
             /\ req[s].sql.page.params[2] = Pattern(SearchOf(q))
        /\ TierOf(q) # "" =>
             req[s].sql.page.params[Len(req[s].sql.page.params) - 2] = TierOf(q)
        /\ (req[t].handler = "getUsers" /\ req[t].sql # NoRes
              /\ SameFilters(q, req[t].query)) =>
             \A n \in DOMAIN req[s].sql \cap DOMAIN req[t].sql :
               req[s].sql[n].text = req[t].sql[n].text

\* two getUsers requests with different search texts wait for their count
\* queries
C15_Witness ==
  \E s, t \in Slots :
    /\ req[s].handler = "getUsers" /\ req[s].pc = "q2"
    /\ req[t].handler = "getUsers" /\ req[t].pc = "q2"
    /\ SearchOf(req[s].query) # <<>>
    /\ SearchOf(req[t].query) # <<>>
    /\ SearchOf(req[s].query) # SearchOf(req[t].query)
    /\ SameFilters(req[s].query, req[t].query)

\* C16: a page of getUsers that returns all rows its filters select has one
\* row for each user the filters select, and in every page the row of a user
\* without listings has listing_count 0 and the row of a user without active
\* marketplace account has connected_accounts 0
C16_ZeroCountsAppear ==
  [][\A s \in Slots :
       /\ WholePage(s) =>
            /\ RowIds(req'[s].res) = Matching(req'[s].query)
            /\ Len(req'[s].res) = Cardinality(Matching(req'[s].query))
       /\ (PageStep(s) /\ req'[s].pc = "q2") =>
            \A k \in DOMAIN req'[s].res :
              LET row == req'[s].res[k] IN
                /\ (\A l \in DOMAIN listings : listings[l].user_id # row.id) =>
                     row.listing_count = 0
                /\ (\A a \in DOMAIN marketplace_accounts :
                      marketplace_accounts[a].user_id = row.id =>
                        ~marketplace_accounts[a].is_active) =>
                     row.connected_accounts = 0]_vars

\* getUsers has answered with the row of a user without listings and without
\* marketplace accounts
C16_Witness ==
  \E s \in Slots :
    /\ req[s].handler = "getUsers"
    /\ req[s].status = 200
    /\ \E k \in DOMAIN req[s].data.users :
         LET row == req[s].data.users[k] IN
           /\ row.listing_count = 0
           /\ row.connected_accounts = 0
           /\ \A l \in DOMAIN listings : listings[l].user_id # row.id
           /\ \A a \in DOMAIN marketplace_accounts : marketplace_accounts[a].user_id # row.id

\* C17: whichever of search and tier are given, the total getUsers answers
\* is the number of users that satisfy the WHERE clauses of its page query
C17_CountMirrorsFilters ==
  [][\A s \in Slots :
       CountStep(s) =>
         req'[s].data.pagination.total = Cardinality(Matching(req'[s].query))]_vars

\* getUsers has answered a request with search and tier with a total that
\* leaves out some user
C17_Witness ==
  \E s \in Slots :
    /\ req[s].handler = "getUsers"
    /\ req[s].status = 200
    /\ SearchOf(req[s].query) # <<>>
    /\ TierOf(req[s].query) # ""
    /\ req[s].data.pagination.total > 0
    /\ req[s].data.pagination.total < Cardinality(DOMAIN users)

\* the users with the subscription tier
InTier(tier) == {u \in DOMAIN users : users[u].subscription_tier = <<tier>>}

\* the amount in cents a text of digits with two fraction digits stands for
CentsOf(str) ==
  LET n == Len(str) IN
    DigitsValue(SubSeq(str, 1, n - 3), 0) * 100 + DigitsValue(SubSeq(str, n - 1, n), 0)

\* a text of one or more digits, a point and two digits
TwoFractionDigits(str) ==
  /\ Len(str) >= 4
  /\ str[Len(str) - 2] = "."
  /\ \A i \in DOMAIN str : i # Len(str) - 2 => IsDigit(str[i])

\* C18: the revenue section built from the revenue read of getDashboardMetrics
\* carries the two tier counts; its monthly estimate is 499 cents for each
\* premium user plus 999 cents for each premium_plus user and its annual
\* estimate 12 times that, both written with two fraction digits; 10 premium
\* and 5 premium_plus users give 99.85 and 1198.20
C18_RevenueFromCounts ==
  [][\A s \in Slots :
       (Running(s, "getDashboardMetrics", "revenue") /\ req'[s].pc = "audit") =>
         LET rev == req'[s].res.revenue
             p == Cardinality(InTier("premium"))
             pp == Cardinality(InTier("premium_plus"))
         IN /\ rev.premiumUsers = p
            /\ rev.premiumPlusUsers = pp
            /\ TwoFractionDigits(rev.monthlyRevenue)
            /\ TwoFractionDigits(rev.annualRevenue)
            /\ CentsOf(rev.monthlyRevenue) = 499 * p + 999 * pp
            /\ CentsOf(rev.annualRevenue) = 12 * (499 * p + 999 * pp)
            /\ (p = 10 /\ pp = 5) =>
                 /\ rev.monthlyRevenue = <<"9", "9", ".", "8", "5">>
                 /\ rev.annualRevenue = <<"1", "1", "9", "8", ".", "2", "0">>]_vars

\* getDashboardMetrics has answered with the estimate for 10 premium and 5
\* premium_plus users
C18_Witness ==
  \E s \in Slots :
    /\ req[s].handler = "getDashboardMetrics"
    /\ req[s].status = 200
    /\ req[s].data.revenue.premiumUsers = 10
    /\ req[s].data.revenue.premiumPlusUsers = 5
    /\ req[s].data.revenue.monthlyRevenue = <<"9", "9", ".", "8", "5">>

\* the number of listings of user u
Owned(u) == Cardinality({l \in DOMAIN listings : listings[l].user_id = u})

\* C19: the rows of the top users read of getDashboardMetrics are at most 10,
\* one row per user, each with the number of listings of its user, in
\* non-increasing order of that number; no user left out has more listings
\* than a user in the list, and with at most 10 users every user is in the
\* list, also one without listings
C19_TopUsersRanked ==
  [][\A s \in Slots :
       (Running(s, "getDashboardMetrics", "top") /\ req'[s].pc = "revenue") =>
         LET rows == req'[s].res.topUsersResult IN
           /\ Len(rows) <= 10
           /\ Len(rows) = Min(10, Cardinality(DOMAIN users))
           /\ \A i \in DOMAIN rows :
                /\ rows[i].id \in DOMAIN users
                /\ rows[i].listing_count = Owned(rows[i].id)
           /\ \A i, j \in DOMAIN rows :
                i < j => (rows[i].id # rows[j].id
                            /\ rows[i].listing_count >= rows[j].listing_count)
           /\ \A u \in DOMAIN users \ RowIds(rows) :
                \A i \in DOMAIN rows : Owned(u) <= rows[i].listing_count]_vars

\* getDashboardMetrics has answered for users with 5, 5, 2 and 0 listings:
\* the user without listings is the last of the top users
C19_Witness ==
  \E s \in Slots :
    /\ req[s].handler = "getDashboardMetrics"
    /\ req[s].status = 200
    /\ LET rows == req[s].data.topUsers IN
         /\ Len(rows) = 4
         /\ rows[1].listing_count = 5
         /\ rows[2].listing_count = 5
         /\ rows[3].listing_count = 2
         /\ rows[4].listing_count = 0

\* C20: a step changes admin_activity_log only by appending one row, and
\* only as the step in which getDashboardMetrics answers 200: the row is
\* tagged view_dashboard and holds the caller's id, it is the only write
\* of the request, and every row in the log stays as it is
C20_AuditAppendOnly ==
  [][/\ \/ admin_activity_log' = admin_activity_log
        \/ \E s \in Slots :
             /\ req[s].handler = "getDashboardMetrics"
             /\ req[s].status # 200 /\ req'[s].status = 200
             /\ admin_activity_log' =
                  Append(admin_activity_log,
                         [admin_id |-> req[s].userId, action |-> "view_dashboard"])
     /\ \A s \in Slots :
          (req[s].handler = "getDashboardMetrics"
             /\ req[s].status # 200 /\ req'[s].status = 200) =>
            /\ Len(admin_activity_log') = Len(admin_activity_log) + 1
            /\ req'[s].writes = 1
     /\ \A i \in DOMAIN admin_activity_log :
          /\ i \in DOMAIN admin_activity_log'
          /\ admin_activity_log'[i] = admin_activity_log[i]]_vars

\* getDashboardMetrics has answered 200 for the second time: the log holds
\* the rows of both calls
C20_Witness ==
  \E s \in Slots :
    /\ req[s].handler = "getDashboardMetrics"
    /\ req[s].status = 200
    /\ Len(admin_activity_log) = 2
    /\ \A i \in DOMAIN admin_activity_log :
         admin_activity_log[i] = [admin_id |-> req[s].userId, action |-> "view_dashboard"]

\* C21: in every handler the step in which a query rejects (the admin check
\* of a controller handler included) sends the error envelope with status 500
\* and no data and changes no other request; a request with a rejected query
\* is in no other position than answered with 500
C21_StoreFailureCaught ==
  [][\A s \in Slots :
       /\ (~req[s].threw /\ req'[s].threw) =>
            /\ req'[s].pc = "done"
            /\ req'[s].status = 500
            /\ req'[s].data = NoData
            /\ \A t \in Slots \ {s} : req'[t] = req[t]
       /\ req'[s].threw => (req'[s].pc = "done" /\ req'[s].status = 500)]_vars

\* DELETE /users/:id has answered 500 after its second query rejected
C21_Witness ==
  \E s \in Slots :
    /\ req[s].handler = "deleteUser"
    /\ req[s].pc = "done"
    /\ req[s].status = 500
    /\ req[s].threw
    /\ req[s].writes = 2

\* the place of a position in the order in which a handler issues its queries
Rank(pc) ==
  CASE pc \in {"q1", "parallel"} -> 1
    [] pc \in {"q2", "status"} -> 2
    [] pc \in {"q3", "top"} -> 3
    [] pc \in {"q4", "revenue"} -> 4
    [] pc = "audit" -> 5
    [] pc = "done" -> 6
    [] OTHER -> 0

\* C22: every step of a request moves it to a later position (or takes one
\* more of the pending parallel reads), so that no query is issued twice; the
\* step in which a query rejects sends 500 and issues no query (in
\* getDashboardMetrics, which counts a query as it is issued, the numbers of
\* queries and of writes stay as they are and the audit log is left alone),
\* and an answered request takes no further step but leaving its slot
C22_NoRetry ==
  [][\A s \in Slots :
       /\ (Steps(s) \/ Arrives(s)) =>
            /\ \/ Rank(req'[s].pc) > Rank(req[s].pc)
               \/ /\ req'[s].pc = req[s].pc
                  /\ req'[s].pending \subseteq req[s].pending
                  /\ req'[s].pending # req[s].pending
            /\ req'[s].threw =>
                 /\ req'[s].pc = "done"
                 /\ req'[s].status = 500
                 /\ req'[s].queries <= req[s].queries + 1
                 /\ req[s].handler = "getDashboardMetrics" =>
                      /\ req'[s].queries = req[s].queries
                      /\ req'[s].writes = req[s].writes
                      /\ admin_activity_log' = admin_activity_log
                      /\ req[s].pc # "audit" => req'[s].writes = 0
       /\ req[s].pc = "done" => (req'[s] = req[s] \/ req'[s] = IdleReq)]_vars

\* getDashboardMetrics has answered 500 after its top users read rejected:
\* the revenue read and the audit insert were not issued
C22_Witness ==
  \E s \in Slots :
    /\ req[s].handler = "getDashboardMetrics"
    /\ req[s].status = 500
    /\ req[s].threw
    /\ req[s].queries = Cardinality(ParallelReads) + 2
    /\ req[s].writes = 0
    /\ admin_activity_log = <<>>

\* the request in slot s holds the rows of its page query, run with a
\* limit > 0 and a page >= 1
HoldsPage(s) ==
  /\ req[s].handler = "getUsers"
  /\ req[s].pc = "q2"
  /\ LimitOf(req[s].query).val > 0
  /\ PageOf(req[s].query).val >= 1

\* C23: of two getUsers requests with the same search, tier and limit that
\* hold their pages of the same users table, each page has at most limit
\* rows and no user twice, a page beyond totalPages is empty, pages with
\* different numbers share no user, and when the two pages are all pages
\* 1..totalPages they hold every matching user
C23_PagesPartition ==
  \A s, t \in Slots :
    (/\ s # t /\ HoldsPage(s) /\ HoldsPage(t)
     /\ SearchOf(req[s].query) = SearchOf(req[t].query)
     /\ TierOf(req[s].query) = TierOf(req[t].query)
     /\ LimitOf(req[s].query) = LimitOf(req[t].query)) =>
      LET q == req[s].query
          total == Cardinality(Matching(q))
          pages == TotalPages(total, LimitOf(q)).val
          ps == PageOf(q).val
          pt == PageOf(req[t].query).val
      IN /\ Len(req[s].res) <= LimitOf(q).val
         /\ Cardinality(RowIds(req[s].res)) = Len(req[s].res)
         /\ RowIds(req[s].res) \subseteq Matching(q)
         /\ ps > pages => req[s].res = <<>>
         /\ ps # pt => RowIds(req[s].res) \cap RowIds(req[t].res) = {}
         /\ {ps, pt} = 1..pages =>
              RowIds(req[s].res) \cup RowIds(req[t].res) = Matching(q)

\* the sum of the values of the mapping f
RECURSIVE SumOf(_)
SumOf(f) ==
  IF DOMAIN f = {} THEN 0
  ELSE LET k == CHOOSE x \in DOMAIN f : TRUE
       IN f[k] + SumOf([x \in DOMAIN f \ {k} |-> f[x]])

\* the users whose subscription tier gives the key k
WithTierKey(k) == {u \in DOMAIN users : TierKey(users[u].subscription_tier) = k}

\* C24: the subscriptions mapping made of the rows of the tiers read of
\* getDashboardMetrics has one key for each tier value some user has at the
\* time of the read (and so none for a tier without user), each value is the
\* number of users with that tier, and the values add up to the number of
\* users at the time of the read; the metrics object holds that mapping
C24_SubscriptionsByTier ==
  [][\A s \in Slots :
       /\ (/\ Running(s, "getDashboardMetrics", "parallel")
           /\ "subscriptionTiersResult" \in req[s].pending
           /\ "subscriptionTiersResult" \notin req'[s].pending
           /\ ~req'[s].threw) =>
            LET sub == Subscriptions(req'[s].res.subscriptionTiersResult) IN
              /\ DOMAIN sub = {TierKey(users[u].subscription_tier) : u \in DOMAIN users}
              /\ \A k \in {"free", "premium", "premium_plus"} :
                   k \in DOMAIN sub <=> \E u \in DOMAIN users : users[u].subscription_tier = <<k>>
              /\ \A k \in DOMAIN sub : sub[k] = Cardinality(WithTierKey(k)) /\ sub[k] > 0
              /\ SumOf(sub) = Cardinality(DOMAIN users)
       /\ (Running(s, "getDashboardMetrics", "revenue") /\ req'[s].pc = "audit") =>
            req'[s].res.subscriptions = Subscriptions(req[s].res.subscriptionTiersResult)]_vars

\* getDashboardMetrics has answered after the only free user was deleted:
\* the mapping has the key premium alone
C24_Witness ==
  \E s \in Slots :
    /\ req[s].handler = "getDashboardMetrics"
    /\ req[s].status = 200
    /\ req[s].data.subscriptions = [premium |-> 1]
    /\ DOMAIN users = {1}

\* the number of active marketplace accounts of user u
ActiveAccounts(u) ==
  Cardinality({a \in DOMAIN marketplace_accounts :
                 marketplace_accounts[a].user_id = u /\ marketplace_accounts[a].is_active})

\* C25: in every row of a page of getUsers, listing_count is the number of
\* listings of the row's user and connected_accounts the number of active
\* marketplace accounts of that user
C25_RowCountsExact ==
  [][\A s \in Slots :
       (PageStep(s) /\ req'[s].pc = "q2") =>
         \A k \in DOMAIN req'[s].res :
           LET row == req'[s].res[k] IN
             /\ row.listing_count = Owned(row.id)
             /\ row.connected_accounts = ActiveAccounts(row.id)]_vars

\* the value of key k in the mapping f, 0 when f has no key k
ValueOr0(f, k) == IF k \in DOMAIN f THEN f[k] ELSE 0

\* C26: in every metrics report answered with 200, also one computed while
\* other requests write, revenue.premiumUsers is subscriptions.premium (0
\* without that key), revenue.premiumPlusUsers is subscriptions.premium_plus
\* and the subscription counts add up to overview.totalUsers
C26_MetricsConsistent ==
  \A s \in Slots :
    (req[s].handler = "getDashboardMetrics" /\ req[s].status = 200) =>
      LET d == req[s].data IN
        /\ d.revenue.premiumUsers = ValueOr0(d.subscriptions, "premium")
        /\ d.revenue.premiumPlusUsers = ValueOr0(d.subscriptions, "premium_plus")
        /\ SumOf(d.subscriptions) = d.overview.totalUsers

\* the kept responses of DELETE /users/:id for user i with the status code
Deleted(i, code) ==
  {k \in DOMAIN delivered :
     /\ delivered[k].handler = "deleteUser"
     /\ delivered[k].id = i
     /\ delivered[k].status = code}

\* C27: of the responses of the DELETE /users/:id requests for a user that
\* exists at the start, whichever way the requests interleave, at most one
\* is a 200; a request the store answers gets 404 only after another got
\* 200, so that of two answered requests one gets 200 and the other 404; and
\* from the 200 on the user row is gone and every listing of the user has a
\* deleted_at
C27_OneDeleteSucceeds ==
  \A i \in DOMAIN InitUsers :
    /\ Cardinality(Deleted(i, 200)) <= 1
    /\ \A k \in Deleted(i, 404) : \E j \in Deleted(i, 200) : j < k
    /\ Cardinality(Deleted(i, 200) \cup Deleted(i, 404)) = 2 =>
         (Cardinality(Deleted(i, 200)) = 1 /\ Cardinality(Deleted(i, 404)) = 1)
    /\ Deleted(i, 200) # {} =>
         /\ i \notin DOMAIN users
         /\ \A l \in DOMAIN listings :
              listings[l].user_id = i => listings[l].deleted_at # NoTime

\* two DELETE /users/2 requests have both soft-deleted the listings of user
\* 2 while its row existed; the first was answered 200, the second 404
C27_Witness ==
  /\ Len(delivered) = 2
  /\ \A k \in DOMAIN delivered :
       delivered[k].handler = "deleteUser" /\ delivered[k].id = 2 /\ delivered[k].found
  /\ delivered[1].status = 200
  /\ delivered[2].status = 404
  /\ 2 \notin DOMAIN users

\* the status codes of the response envelope
Statuses == {200, 403, 404, 500}

\* C28: a request whose handler has ended has sent exactly one response, with
\* status 200, 403, 404 or 500, and one whose handler has not ended has sent
\* none; a handler that has not ended can take its next step whenever no
\* response is being handed over; and a request leaves its slot only after
\* its handler has sent its response
C28_OneResponse ==
  /\ [](\A s \in Slots :
          /\ req[s].pc = "done" => (req[s].sent = 1 /\ req[s].status \in Statuses)
          /\ req[s].pc # "done" => (req[s].sent = 0 /\ req[s].status = 0)
          /\ (Quiet /\ req[s].pc \notin {"idle", "done"}) =>
               ENABLED (Next /\ req'[s] # req[s]))
  /\ [][\A s \in Slots :
          /\ (req[s].pc # "idle" /\ req'[s].pc = "idle") =>
               (req[s].pc = "done" /\ req[s].sent = 1)
          /\ req[s].pc = "done" => req'[s] \in {req[s], IdleReq}]_vars

\* DELETE /listings/:id, the second request, has answered 404 after the
\* first request has left its slot
C28_Witness ==
  \E s \in Slots :
    /\ req[s].handler = "deleteListing"
    /\ req[s].pc = "done"
    /\ req[s].status = 404
    /\ req[s].sent = 1
    /\ issued = 2
    /\ \A t \in Slots \ {s} : req[t] = IdleReq

\* the handlers of the GET routes
GetHandlers ==
  {"dashboard", "getAllUsers", "getUser", "getListings", "system", "analytics",
   "getDashboardMetrics", "getUsers", "getSystemStats", "getAdminActivity"}

\* the request whose handler takes the step
Stepping(s) == req'[s] # req[s] /\ req[s].pc # "done"

\* C29: no step changes marketplace_accounts (or ebay_listings); a step that
\* changes users is a step of PUT /users/:id or DELETE /users/:id and one that
\* changes listings a step of DELETE /users/:id or DELETE /listings/:id; a
\* step of a GET handler leaves users, listings and marketplace_accounts as
\* they are and changes admin_activity_log only as the one insert of
\* getDashboardMetrics, which is the only write a GET handler issues
C29_GetHandlersReadOnly ==
  [][/\ marketplace_accounts' = marketplace_accounts
     /\ ebay_listings' = ebay_listings
     /\ users' # users =>
          \E s \in Slots : Stepping(s) /\ req[s].handler \in {"putUser", "deleteUser"}
     /\ listings' # listings =>
          \E s \in Slots : Stepping(s) /\ req[s].handler \in {"deleteUser", "deleteListing"}
     /\ admin_activity_log' # admin_activity_log =>
          \E s \in Slots : Stepping(s) /\ req[s].handler = "getDashboardMetrics"
     /\ \A s \in Slots :
          (Stepping(s) /\ req'[s].handler \in GetHandlers) =>
            /\ users' = users
            /\ listings' = listings
            /\ req'[s].writes =
                 IF req'[s].handler = "getDashboardMetrics" /\ req'[s].pc = "audit" THEN 1
                 ELSE req[s].writes
            /\ req'[s].writes <= 1
            /\ Len(admin_activity_log') =
                 Len(admin_activity_log) + (IF req'[s].status = 200 THEN req'[s].writes ELSE 0)]_vars

\* getDashboardMetrics has answered 200 after a PUT /users/:id wrote: the
\* users are as the PUT left them and the log has the one row of the report
C29_Witness ==
  \E s \in Slots :
    /\ req[s].handler = "getDashboardMetrics"
    /\ req[s].status = 200
    /\ req[s].writes = 1
    /\ Len(admin_activity_log) = 1
    /\ users # InitUsers
    /\ DOMAIN users = DOMAIN InitUsers
    /\ listings = InitListings

\* the clauses of a kind in the text of a statement
Clauses(stmt, kind) == {k \in DOMAIN stmt.text : stmt.text[k].clause = kind}

\* the placeholders of the statement are $1..$n, n the length of its
\* parameter array, no number is written twice, and the search and tier
\* clauses are there when search and tier are given, each placeholder at the
\* position of the parameter array that holds its value: the search pattern
\* for username and for email, then the tier
WellNumbered(stmt, query) ==
  LET search == SearchOf(query)
      tier == TierOf(query)
      n == Len(stmt.params)
      first == IF search # <<>> THEN 3 ELSE 1
  IN /\ UNION {Placeholders(stmt.text[k]) : k \in DOMAIN stmt.text} = 1..n
     /\ \A k, m \in DOMAIN stmt.text :
          k # m => Placeholders(stmt.text[k]) \cap Placeholders(stmt.text[m]) = {}
     /\ \A k \in DOMAIN stmt.text :
          Cardinality(Placeholders(stmt.text[k])) = Cardinality(DOMAIN stmt.text[k]) - 1
     /\ Cardinality(Clauses(stmt, "search")) = (IF search # <<>> THEN 1 ELSE 0)
     /\ Cardinality(Clauses(stmt, "tier")) = (IF tier # "" THEN 1 ELSE 0)
     /\ \A k \in Clauses(stmt, "search") :
          /\ stmt.text[k].username = 1 /\ stmt.text[k].email = 2
          /\ stmt.params[1] = Pattern(search) /\ stmt.params[2] = Pattern(search)
     /\ \A k \in Clauses(stmt, "tier") :
          /\ stmt.text[k].tier = first
          /\ stmt.params[first] = tier

\* C30: for a getUsers request with any of search and tier given, the
\* placeholders of its page query are $1..$n without gap for the n values of
\* params, which are the search pattern twice, the tier, the limit and the
\* offset in that order (those of them that are given), each placeholder
\* naming the position of its value; the same holds of the count query and
\* countParams, without limit and offset
C30_PlaceholdersNumbered ==
  \A s \in Slots :
    (req[s].handler = "getUsers" /\ req[s].sql # NoRes) =>
      LET q == req[s].query
          filters == (IF SearchOf(q) # <<>> THEN 2 ELSE 0) + (IF TierOf(q) # "" THEN 1 ELSE 0)
          page == req[s].sql.page
      IN /\ WellNumbered(page, q)
         /\ Len(page.params) = filters + 2
         /\ Cardinality(Clauses(page, "window")) = 1
         /\ \A k \in Clauses(page, "window") :
              /\ k = Len(page.text)
              /\ page.text[k].limit = filters + 1
              /\ page.text[k].offset = filters + 2
              /\ page.params[filters + 1] = LimitOf(q)
              /\ page.params[filters + 2] = Offset(PageOf(q), LimitOf(q))
         /\ "count" \in DOMAIN req[s].sql =>
              /\ WellNumbered(req[s].sql.count, q)
              /\ Len(req[s].sql.count.params) = filters
              /\ Clauses(req[s].sql.count, "window") = {}

\* a getUsers request with search and tier holds its page query with five
\* parameters and its count query with three
C30_Witness ==
  \E s \in Slots :
    /\ req[s].handler = "getUsers"
    /\ req[s].pc = "q2"
    /\ SearchOf(req[s].query) # <<>>
    /\ TierOf(req[s].query) # ""
    /\ Len(req[s].sql.page.params) = 5
    /\ Len(req[s].sql.count.params) = 3

====
